---- MODULE Spec2Model ----
(***************************************************************************)
(* Parallel::Request (request.h): a handle on a non-blocking MPI operation *)
(* with an owned chain of prior requests and a reference-counted, shared   *)
(* vector of post-wait work.  The model follows the LIBMESH_HAVE_MPI       *)
(* branch of the header.                                                   *)
(*                                                                         *)
(* A Request object is a record [req, pww, prior]:                         *)
(*   req    the value of _request: NullReq (MPI_REQUEST_NULL) or the id of *)
(*          a native operation;                                            *)
(*   pww    the pointer post_wait_work: NullPtr or the address of a pair   *)
(*          in the heap;                                                   *)
(*   prior  the chain hanging off _prior_request, as the sequence of the   *)
(*          links' [req, pww]; prior[1] is the object _prior_request owns, *)
(*          prior[k+1] the object prior[k]._prior_request owns.            *)
(* The heap is the sequence of every pair<vector<PostWaitWork*>, unsigned> *)
(* allocated so far; an address is an index into it.                       *)
(***************************************************************************)
EXTENDS Integers, Sequences, FiniteSets, TLC

\* ---- bounds of the model ----
NumHandles == 2      \* Request objects the caller holds (top-level handles)
NumOps     == 2      \* native non-blocking operations
MaxLists   == 3      \* pairs allocated by add_post_wait_work in one run
MaxItems   == 2      \* work items pushed on one vector
MaxChain   == 2      \* links in one prior chain
MaxCalls   == 6      \* calls the caller makes in one run

\* ---- program constants ----
NullReq  == 0        \* MPI_REQUEST_NULL
NullPtr  == 0        \* libmesh_nullptr

Handles == 1..NumHandles
Ops     == 1..NumOps

\* The two ways the header is compiled: "dbg" is the strict build (DEBUG is
\* defined and libmesh_assert checks its argument), "opt" the build in which
\* libmesh_assert expands to nothing and DEBUG is not defined.
Builds == {"opt", "dbg"}

VARIABLES
  build,      \* the build method of this run
  hs,         \* hs[h]: the top-level Request in slot h (live or not)
  heap,       \* the post_wait_work pairs allocated so far
  completed,  \* native operations in the order the primitive completed them
  failed,     \* native operations the primitive has ended with an error
  pc,         \* "idle": in the caller; "wait": inside Request::wait
  cur,        \* the running wait() call: handle, chain position, state at entry
  batch,      \* the index (from 1) the batch wait is at in its vector, 0 if none
  trace,      \* what the running (or last) wait/batch wait did, in order
  result,     \* what the last call returned
  last,       \* the last call made: [op, h, v] (v: the vector of a batch wait)
  calls,      \* the number of calls made so far
  err         \* "none", or how the run ended abnormally

vars == <<build, hs, heap, completed, failed, pc, cur, batch, trace, result, last, calls, err>>

\* ------------------------------------------------------------------------
\* Values

Dead == [live |-> FALSE, req |-> NullReq, pww |-> NullPtr, prior |-> <<>>]

Link(r, p) == [req |-> r, pww |-> p]

Range(s) == {s[i] : i \in 1..Len(s)}

Done(n) == n \in Range(completed)

Failed(n) == n \in failed

AssertsOn == build = "dbg"

DebugOn == build = "dbg"

\* The pointers a Request object and its chain hold, in the order their
\* destructors release them: the object itself, then prior[1], prior[2], ...
Pointers(R) == <<R.pww>> \o [i \in 1..Len(R.prior) |-> R.prior[i].pww]

ChainPointers(R) == [i \in 1..Len(R.prior) |-> R.prior[i].pww]

\* The pointers of the chain of R in the order its copy counts them up:
\* new Request(*other._prior_request) runs the copy constructor of the next
\* link before its own second++, so the deepest link is counted first
CopiedPointers(R) ==
  [i \in 1..Len(R.prior) |-> R.prior[Len(R.prior) + 1 - i].pww]

\* ------------------------------------------------------------------------
\* The use count.  A machine state m is [heap, err]; every step below leaves
\* m alone once m.err is set (the run has ended).  The count is an unsigned
\* int; a pair is only ever counted up from a count of at least 1 by one per
\* Request object and counted down from a count of at least 1, so that it
\* stays far inside the range of the type and no step wraps around.  Counting
\* or looping through a pointer to a pair that has been deleted is a use of
\* freed memory: what the program does from there on is undefined, and the
\* model follows it no further; it marks the run with err = "UseAfterFree".

Mach(hp, e) == [heap |-> hp, err |-> e]

Pending(pair) == \E i \in 1..Len(pair.first) : pair.first[i]

\* post_wait_work->second++ through pointer p (lines 146-147, 182-183)
Acquire(m, p) ==
  IF m.err # "none" \/ p = NullPtr THEN m
  ELSE IF m.heap[p].freed THEN Mach(m.heap, "UseAfterFree")
  ELSE Mach([m.heap EXCEPT ![p].second = @ + 1], m.err)

RECURSIVE AcquireAll(_, _)
AcquireAll(m, ps) ==
  IF ps = <<>> THEN m ELSE AcquireAll(Acquire(m, Head(ps)), Tail(ps))

\* a slip in cleanup(): the pair is deleted without the DEBUG check of its
\* items
MutCleanupMach(m, p) ==
  IF m.err # "none" \/ p = NullPtr THEN m
  ELSE IF m.heap[p].freed THEN Mach(m.heap, "UseAfterFree")
  ELSE LET dec == m.heap[p].second - 1
           h1  == [m.heap EXCEPT ![p].second = dec]
       IN  IF dec # 0 THEN Mach(h1, m.err)
           ELSE Mach([h1 EXCEPT ![p].freed = TRUE], m.err)

\* Request::cleanup through pointer p: the heap it leaves
CleanupMach(m, p) ==
  IF m.err # "none" \/ p = NullPtr THEN m
  ELSE IF m.heap[p].freed THEN Mach(m.heap, "UseAfterFree")
  ELSE LET dec == m.heap[p].second - 1
           h1  == [m.heap EXCEPT ![p].second = dec]
       IN  IF dec # 0 THEN Mach(h1, m.err)
           ELSE IF DebugOn /\ Pending(m.heap[p])
                THEN Mach(h1, "InvariantViolation")
                ELSE Mach([h1 EXCEPT ![p].freed = TRUE], m.err)

\* Request::cleanup through pointer p: the value of post_wait_work it leaves
CleanupPtr(m, p) ==
  IF m.err # "none" \/ p = NullPtr THEN p
  ELSE IF m.heap[p].second - 1 = 0 THEN NullPtr ELSE p

\* ~Request of an object holding the pointers ps (itself, then its chain)
RECURSIVE ReleaseAll(_, _)
ReleaseAll(m, ps) ==
  IF ps = <<>> THEN m ELSE ReleaseAll(CleanupMach(m, Head(ps)), Tail(ps))

\* ------------------------------------------------------------------------
\* The caller's side of a call: what every call that returns at once records

NoCall == [h |-> 0, pos |-> 0, h0 |-> Dead, heap0 |-> <<>>]

Void == [kind |-> "void", val |-> 0, stat |-> 0]

Call(op, h, v) == [op |-> op, h |-> h, v |-> v]

Returned(op, h, res) ==
  /\ last' = Call(op, h, <<>>)
  /\ result' = res
  /\ cur' = NoCall
  /\ trace' = <<>>
  /\ calls' = calls + 1
  /\ UNCHANGED <<build, completed, failed, pc, batch>>

\* the caller is running (no wait() in progress, no abnormal end) and makes
\* another call
Idle == pc = "idle" /\ err = "none" /\ calls < MaxCalls

\* ------------------------------------------------------------------------
\* Constructors, copy, assignment, destructor

\* Request() (n = NullReq) and Request(const request & r) (n an operation)
NewRequest(n) == [live |-> TRUE, req |-> n, pww |-> NullPtr, prior |-> <<>>]

Create(h, n) ==
  /\ Idle
  /\ ~hs[h].live
  /\ hs' = [hs EXCEPT ![h] = NewRequest(n)]
  /\ UNCHANGED <<heap, err>>
  /\ Returned("create", h, Void)

\* a slip in the copy constructor: the copy's own share is not counted
MutCopyMach(m, R) == AcquireAll(m, CopiedPointers(R))

\* Request(const Request & other): the use counts after copying R's chain
\* (the nested copy constructors run first) and then R's own pointer
CopyMach(m, R) == AcquireAll(m, CopiedPointers(R) \o <<R.pww>>)

\* a slip in the copy constructor: the chain of other is not duplicated
MutCopyObj(R) ==
  [live |-> TRUE, req |-> R.req, pww |-> R.pww, prior |-> <<>>]

\* Request(const Request & other): the new object has other's _request and
\* post_wait_work and, link by link, a chain of its own made of copies of
\* other's links (new Request(*other._prior_request), recursively)
CopyObj(R) ==
  [live |-> TRUE, req |-> R.req, pww |-> R.pww,
   prior |-> [i \in 1..Len(R.prior) |-> Link(R.prior[i].req, R.prior[i].pww)]]

Copy(dst, src) ==
  /\ Idle
  /\ ~hs[dst].live
  /\ hs[src].live
  /\ LET m == CopyMach(Mach(heap, "none"), hs[src])
     IN  /\ hs' = [hs EXCEPT ![dst] = CopyObj(hs[src])]
         /\ heap' = m.heap
         /\ err' = m.err
  /\ Returned("copy", dst, Void)

\* operator=(const Request & other): the prior chain the assigned object has
\* afterwards; D is the object before the call, O is other as the body reads
\* it (after cleanup)
AssignPrior(D, O) == IF O.prior # <<>> THEN O.prior ELSE D.prior

\* operator=(const Request & other) on slot dst with other in slot src
AssignOutcome(dst, src) ==
  LET D  == hs[dst]
      m0 == Mach(heap, "none")
      m1 == CleanupMach(m0, D.pww)
      O  == IF dst = src THEN [D EXCEPT !.pww = CleanupPtr(m0, D.pww)]
                         ELSE hs[src]
      m2 == IF O.prior # <<>>
            THEN ReleaseAll(AcquireAll(m1, CopiedPointers(O)), ChainPointers(D))
            ELSE m1
      m3 == Acquire(m2, O.pww)
  IN  [m   |-> m3,
       obj |-> [live |-> TRUE, req |-> O.req, pww |-> O.pww,
                prior |-> AssignPrior(D, O)]]

Assign(dst, src) ==
  /\ Idle
  /\ hs[dst].live
  /\ hs[src].live
  /\ LET out == AssignOutcome(dst, src)
     IN  /\ hs' = IF out.m.err = "none" THEN [hs EXCEPT ![dst] = out.obj] ELSE hs
         /\ heap' = out.m.heap
         /\ err' = out.m.err
  /\ Returned("assign", dst, Void)

\* a slip in operator=(const request & r): the prior chain is reset as well
MutAssignNativeObj(D, n) ==
  [D EXCEPT !.req = n, !.pww = NullPtr, !.prior = <<>>]

\* operator=(const request & r): the object afterwards, given the object before
AssignNativeObj(D, n) == [D EXCEPT !.req = n, !.pww = NullPtr]

AssignNative(h, n) ==
  /\ Idle
  /\ hs[h].live
  /\ LET m == CleanupMach(Mach(heap, "none"), hs[h].pww)
     IN  /\ hs' = IF m.err = "none"
                  THEN [hs EXCEPT ![h] = AssignNativeObj(hs[h], n)] ELSE hs
         /\ heap' = m.heap
         /\ err' = m.err
  /\ Returned("assign_native", h, Void)

\* ~Request: cleanup() of the object, then of each link of its chain
Destroy(h) ==
  /\ Idle
  /\ hs[h].live
  /\ LET m == ReleaseAll(Mach(heap, "none"), Pointers(hs[h]))
     IN  /\ hs' = IF m.err = "none" THEN [hs EXCEPT ![h] = Dead] ELSE hs
         /\ heap' = m.heap
         /\ err' = m.err
  /\ Returned("destroy", h, Void)

\* cleanup() called by the user (it is a public member): the share is
\* released, and post_wait_work is set to null only if the pair was deleted
Cleanup(h) ==
  /\ Idle
  /\ hs[h].live
  /\ LET m0 == Mach(heap, "none")
         m  == CleanupMach(m0, hs[h].pww)
     IN  /\ hs' = IF m.err = "none"
                  THEN [hs EXCEPT ![h].pww = CleanupPtr(m0, hs[h].pww)] ELSE hs
         /\ heap' = m.heap
         /\ err' = m.err
  /\ Returned("cleanup", h, Void)

\* ------------------------------------------------------------------------
\* add_prior_request, add_post_wait_work

\* a slip in add_prior_request: the chain of req is not checked
MutPriorAssertFails(Q) == FALSE

\* libmesh_assert(!req._prior_request.get())
PriorAssertFails(Q) == AssertsOn /\ Q.prior # <<>>

\* a slip in add_prior_request: the new link is hung behind the chain
MutAttachPrior(H, Q) == H.prior \o <<Link(Q.req, Q.pww)>>

\* the chain of this after add_prior_request(req): the copy of req in front,
\* owning the chain this had
AttachPrior(H, Q) == <<Link(Q.req, Q.pww)>> \o H.prior

\* the use counts: new Request(req) copies req with its chain, and the reset
\* of the copy's _prior_request destroys the copied chain again
AttachMach(m, Q) == ReleaseAll(CopyMach(m, Q), ChainPointers(Q))

AddPriorRequest(h, q) ==
  /\ Idle
  /\ hs[h].live
  /\ hs[q].live
  /\ Len(hs[h].prior) < MaxChain \/ PriorAssertFails(hs[q])
  /\ IF PriorAssertFails(hs[q])
     THEN /\ err' = "InvariantViolation"
          /\ UNCHANGED <<hs, heap>>
     ELSE LET m == AttachMach(Mach(heap, "none"), hs[q])
          IN  /\ hs' = [hs EXCEPT ![h].prior = AttachPrior(hs[h], hs[q])]
              /\ heap' = m.heap
              /\ err' = m.err
  /\ Returned("add_prior_request", h, Void)

\* a slip in add_post_wait_work: the new pair does not count its creator
MutNewPair == [first |-> <<>>, second |-> 0, freed |-> FALSE, runs |-> <<>>, drc |-> 0]

\* new std::pair<...>(std::vector<PostWaitWork *>(), 1)
NewPair == [first |-> <<>>, second |-> 1, freed |-> FALSE, runs |-> <<>>, drc |-> 0]

\* post_wait_work->first.push_back(work): a non-null item, not yet run
PushBack(pair) ==
  [pair EXCEPT !.first = Append(@, TRUE), !.runs = Append(@, 0)]

AddPostWaitWork(h) ==
  /\ Idle
  /\ hs[h].live
  /\ IF hs[h].pww = NullPtr
     THEN /\ Len(heap) < MaxLists
          /\ heap' = Append(heap, PushBack(NewPair))
          /\ hs' = [hs EXCEPT ![h].pww = Len(heap) + 1]
          /\ err' = err
     ELSE IF heap[hs[h].pww].freed
     THEN /\ err' = "UseAfterFree"
          /\ UNCHANGED <<hs, heap>>
     ELSE /\ Len(heap[hs[h].pww].first) < MaxItems
          /\ heap' = [heap EXCEPT ![hs[h].pww] = PushBack(@)]
          /\ hs' = hs
          /\ err' = err
  /\ Returned("add_post_wait_work", h, Void)

\* ------------------------------------------------------------------------
\* The native primitive (MPI_Wait, MPI_Test) as the header uses it

\* the progress engine completes operation n
NativeComplete(n) ==
  /\ err = "none"
  /\ ~Done(n)
  /\ ~Failed(n)
  /\ completed' = Append(completed, n)
  /\ UNCHANGED <<build, hs, heap, failed, pc, cur, batch, trace, result, last, calls, err>>

\* operation n ends with an error: from now on MPI_Wait and MPI_Test on it
\* return an error code
NativeFail(n) ==
  /\ err = "none"
  /\ ~Done(n)
  /\ ~Failed(n)
  /\ failed' = failed \cup {n}
  /\ UNCHANGED <<build, hs, heap, completed, pc, cur, batch, trace, result, last, calls, err>>

\* a slip in the error check: the error code of the native call is dropped
MutCallMpi(r) == "none"

\* libmesh_call_mpi(MPI_Wait(...)) / libmesh_call_mpi(MPI_Test(...)) on
\* request value r: how the call ends the run, "none" if the primitive
\* reported success
CallMpi(r) == IF Failed(r) THEN "TransportFailure" ELSE "none"

\* a slip in wait(): the work is run without blocking in MPI_Wait first
MutReady(r) == TRUE

\* MPI_Wait(&r, ...) can return: r is MPI_REQUEST_NULL or its operation is
\* done, or it has ended with an error
Ready(r) == r = NullReq \/ Done(r) \/ Failed(r)

\* the Status MPI_Wait / MPI_Test fills in for request value r: the completed
\* operation's, or the empty status (0) for MPI_REQUEST_NULL
StatusOf(r) == r

\* ------------------------------------------------------------------------
\* test() and test(status &)

\* a slip in test(): the chain is tested along with the handle's own request
MutTestObj(R) ==
  IF Ready(R.req)
  THEN [R EXCEPT !.req = NullReq,
                 !.prior = [i \in 1..Len(R.prior) |->
                              IF Ready(R.prior[i].req)
                              THEN Link(NullReq, R.prior[i].pww) ELSE R.prior[i]]]
  ELSE R

\* the object after MPI_Test(&_request, &val, ...): a completed request is
\* set to MPI_REQUEST_NULL, nothing else of the object is touched
TestObj(R) == IF Ready(R.req) THEN [R EXCEPT !.req = NullReq] ELSE R

\* libmesh_assert(_request == MPI_REQUEST_NULL) of test(), lines 243-247
TestAssertFails(R, withStatus) ==
  AssertsOn /\ ~withStatus /\ Ready(R.req) /\ TestObj(R).req # NullReq

TestResult(R, withStatus) ==
  [kind |-> "test",
   val  |-> IF Ready(R.req) THEN 1 ELSE 0,
   stat |-> IF withStatus /\ Ready(R.req) THEN StatusOf(R.req) ELSE 0]

Test(h, withStatus) ==
  /\ Idle
  /\ hs[h].live
  /\ hs' = IF CallMpi(hs[h].req) # "none" THEN hs
            ELSE [hs EXCEPT ![h] = TestObj(@)]
  /\ err' = IF CallMpi(hs[h].req) # "none" THEN CallMpi(hs[h].req)
            ELSE IF TestAssertFails(hs[h], withStatus) THEN "InvariantViolation"
            ELSE err
  /\ heap' = heap
  /\ Returned(IF withStatus THEN "test_status" ELSE "test", h,
              TestResult(hs[h], withStatus))

\* ------------------------------------------------------------------------
\* wait()

Ev(e, a, b) == [e |-> e, a |-> a, b |-> b]

\* the object of the chain of H whose frame of wait() is at position k:
\* k = 0 is H itself, k > 0 the link prior[k]
Frame(H, k) == IF k = 0 THEN Link(H.req, H.pww) ELSE H.prior[k]

\* where wait() on H first blocks: the recursion descends to the last link
\* of the chain before any MPI_Wait is issued
FirstPos(H) == Len(H.prior)

\* the frame that runs after the frame at position k returns
NextPos(k) == k - 1

\* the first slot of the vector holding a null pointer, 0 if there is none
FirstNull(pair) ==
  IF \A i \in 1..Len(pair.first) : pair.first[i] THEN 0
  ELSE CHOOSE i \in 1..Len(pair.first) :
         /\ ~pair.first[i]
         /\ \A j \in 1..(i - 1) : pair.first[j]

\* a slip in wait(): a null slot is passed over, without libmesh_assert(item)
MutStopAt(pair, ub) == 0

\* the slot at which the loop of wait() stops abnormally, 0 if it runs to
\* the end: libmesh_assert(item) stops it at the first null pointer; without
\* assertions item->run() on a null pointer is undefined, and ub says
\* whether the build faults there ("crash") or carries on ("skip")
StopAt(pair, ub) ==
  IF FirstNull(pair) = 0 THEN 0
  ELSE IF AssertsOn THEN FirstNull(pair)
  ELSE IF ub = "crash" THEN FirstNull(pair)
  ELSE 0

\* the slots whose item the loop runs, given where it stops
RunSlots(pair, stop) ==
  {i \in 1..Len(pair.first) : pair.first[i] /\ (stop = 0 \/ i < stop)}

\* a slip in the loop of wait(): the slot is not set to null after the run
MutDrainPair(pair, stop) ==
  LET S == RunSlots(pair, stop)
  IN  [pair EXCEPT
         !.runs  = [i \in 1..Len(pair.runs) |->
                      IF i \in S THEN pair.runs[i] + 1 ELSE pair.runs[i]],
         !.drc   = IF S = {} THEN @ ELSE pair.second]

\* the pair after the loop: item->run(); delete item; item = libmesh_nullptr
\* for every slot run (runs and drc record what was done, and under which
\* use count)
DrainPair(pair, stop) ==
  LET S == RunSlots(pair, stop)
  IN  [pair EXCEPT
         !.first = [i \in 1..Len(pair.first) |-> pair.first[i] /\ i \notin S],
         !.runs  = [i \in 1..Len(pair.runs) |->
                      IF i \in S THEN pair.runs[i] + 1 ELSE pair.runs[i]],
         !.drc   = IF S = {} THEN @ ELSE pair.second]

RECURSIVE RunEvents(_, _)
RunEvents(p, S) ==
  IF S = {} THEN <<>>
  ELSE LET j == CHOOSE x \in S : \A y \in S : x <= y
       IN  <<Ev("run", p, j)>> \o RunEvents(p, S \ {j})

\* the events of the loop over the vector behind pointer p, front to back
DrainEvents(hp, p, stop) ==
  IF p = NullPtr THEN <<>> ELSE RunEvents(p, RunSlots(hp[p], stop))

DrainHeap(hp, p, stop) ==
  IF p = NullPtr THEN hp ELSE [hp EXCEPT ![p] = DrainPair(hp[p], stop)]

DrainErr(hp, p, stop) ==
  IF p = NullPtr \/ stop = 0 THEN "none"
  ELSE IF AssertsOn THEN "InvariantViolation" ELSE "Crash"

\* the object H after the frame at position k has passed its MPI_Wait
Waited(H, k) ==
  IF k = 0 THEN [H EXCEPT !.req = NullReq]
  ELSE [H EXCEPT !.prior[k].req = NullReq]

\* a slip in wait(): the Status of the prior's wait() is kept and returned
MutWaitStatus(H0, rk) ==
  IF H0.prior # <<>> THEN StatusOf(H0.prior[1].req) ELSE StatusOf(rk)

\* the Status wait() returns on the object that was H0 at the call, given
\* the request value rk its own MPI_Wait was handed: "return stat" of the
\* outermost frame; what _prior_request->wait() returned is dropped
WaitStatus(H0, rk) == StatusOf(rk)

WaitResult(H0, rk) ==
  [kind |-> "wait", val |-> 0, stat |-> WaitStatus(H0, rk)]

EnterWait(h) == [h |-> h, pos |-> FirstPos(hs[h]), h0 |-> hs[h], heap0 |-> heap]

\* r.wait() is called
WaitBegin(h) ==
  /\ Idle
  /\ hs[h].live
  /\ pc' = "wait"
  /\ cur' = EnterWait(h)
  /\ trace' = <<Ev("call", h, 0)>>
  /\ last' = Call("wait", h, <<>>)
  /\ result' = Void
  /\ calls' = calls + 1
  /\ UNCHANGED <<build, hs, heap, completed, failed, batch, err>>

\* the vectors wait(std::vector<Request> &) can be handed: the live handles,
\* some, all or none of them, in any order
RECURSIVE Perms(_)
Perms(S) ==
  IF S = {} THEN {<<>>}
  ELSE UNION {{<<x>> \o t : t \in Perms(S \ {x})} : x \in S}

Vectors == UNION {Perms(S) : S \in SUBSET {h \in Handles : hs[h].live}}

\* a slip in the batch wait: the loop stops after the first element
MutBatchMore(i, v) == FALSE

\* the loop condition of the batch wait after element i (counted from 1)
\* has been waited, i = 0 before the first: i < r.size()
BatchMore(i, v) == i < Len(v)

\* wait(r) for a vector r is called: the loop condition is evaluated, and
\* the loop starts with r[0].wait() or, for an empty vector, the call
\* returns at once
BatchBegin(v) ==
  /\ Idle
  /\ v \in Vectors
  /\ last' = Call("batch", 0, v)
  /\ result' = Void
  /\ calls' = calls + 1
  /\ IF BatchMore(0, v)
     THEN /\ pc' = "wait"
          /\ batch' = 1
          /\ cur' = EnterWait(v[1])
          /\ trace' = <<Ev("call", v[1], 0)>>
     ELSE /\ pc' = "idle"
          /\ batch' = 0
          /\ cur' = NoCall
          /\ trace' = <<>>
  /\ UNCHANGED <<build, hs, heap, completed, failed, err>>

\* One frame of the running wait(): its MPI_Wait returns, the loop over the
\* work runs, and the frame returns to its caller: the next frame of the
\* chain, the caller of wait(), or the loop of the batch wait, which calls
\* wait() on the next element of the vector.
WaitStep(ub) ==
  /\ pc = "wait"
  /\ err = "none"
  /\ LET H    == hs[cur.h]
         k    == cur.pos
         F    == Frame(H, k)
         ce   == IF CallMpi(F.req) # "none" THEN CallMpi(F.req)
                 ELSE IF F.pww # NullPtr /\ heap[F.pww].freed THEN "UseAfterFree"
                 ELSE "none"
         stop == IF F.pww = NullPtr \/ ce # "none" THEN 0
                 ELSE StopAt(heap[F.pww], ub)
         e    == IF ce # "none" THEN ce ELSE DrainErr(heap, F.pww, stop)
         hs1  == IF ce # "none" THEN hs ELSE [hs EXCEPT ![cur.h] = Waited(H, k)]
         tr1  == IF ce # "none" THEN trace \o <<Ev("wait", F.req, 0)>>
                 ELSE trace \o <<Ev("wait", F.req, 0)>>
                            \o DrainEvents(heap, F.pww, stop)
     IN  /\ Ready(F.req)
         /\ ub = "skip" \/ (stop # 0 /\ ~AssertsOn)
         /\ hs' = hs1
         /\ heap' = IF ce # "none" THEN heap ELSE DrainHeap(heap, F.pww, stop)
         /\ err' = e
         /\ IF e # "none"
            THEN /\ trace' = tr1
                 /\ UNCHANGED <<pc, cur, batch, result, last>>
            ELSE IF k # 0
            THEN /\ trace' = tr1
                 /\ cur' = [cur EXCEPT !.pos = NextPos(k)]
                 /\ UNCHANGED <<pc, batch, result, last>>
            ELSE IF batch # 0 /\ BatchMore(batch, last.v)
            THEN /\ trace' = tr1 \o <<Ev("call", last.v[batch + 1], 0)>>
                 /\ batch' = batch + 1
                 /\ cur' = [h |-> last.v[batch + 1],
                            pos |-> FirstPos(hs1[last.v[batch + 1]]),
                            h0 |-> hs1[last.v[batch + 1]],
                            heap0 |-> heap']
                 /\ UNCHANGED <<pc, result, last>>
            ELSE /\ trace' = tr1
                 /\ pc' = "idle"
                 /\ batch' = 0
                 /\ result' = IF batch # 0 THEN Void ELSE WaitResult(cur.h0, F.req)
                 /\ UNCHANGED <<cur, last>>
  /\ UNCHANGED <<build, completed, failed, calls>>

\* ------------------------------------------------------------------------
\* The specification

Init ==
  /\ build \in Builds
  /\ hs = [h \in Handles |-> Dead]
  /\ heap = <<>>
  /\ completed = <<>>
  /\ failed = {}
  /\ pc = "idle"
  /\ cur = NoCall
  /\ batch = 0
  /\ trace = <<>>
  /\ result = Void
  /\ last = Call("none", 0, <<>>)
  /\ calls = 0
  /\ err = "none"

Next ==
  \/ \E h \in Handles, n \in {NullReq} \cup Ops : Create(h, n)
  \/ \E d \in Handles, s \in Handles : Copy(d, s)
  \/ \E d \in Handles, s \in Handles : Assign(d, s)
  \/ \E h \in Handles, n \in {NullReq} \cup Ops : AssignNative(h, n)
  \/ \E h \in Handles : Destroy(h)
  \/ \E h \in Handles, q \in Handles : AddPriorRequest(h, q)
  \/ \E h \in Handles : AddPostWaitWork(h)
  \/ \E h \in Handles, ws \in BOOLEAN : Test(h, ws)
  \/ \E h \in Handles : WaitBegin(h)
  \/ \E v \in Vectors : BatchBegin(v)
  \/ \E ub \in {"skip", "crash"} : WaitStep(ub)
  \/ \E n \in Ops : NativeComplete(n)

Spec == Init /\ [][Next]_vars

\* ------------------------------------------------------------------------
\* The chaining scenarios start where the issuing code has built its
\* handles: every handle h wraps its own operation and has queued work on a
\* vector of its own (Create(h, h) followed by AddPostWaitWork(h)); from
\* there the caller chains, re-issues, queues more work and waits.

Fixture(h) ==
  [live |-> TRUE,
   req |-> IF h \in Ops THEN h ELSE NullReq,
   pww |-> IF h <= MaxLists THEN h ELSE NullPtr,
   prior |-> <<>>]

InitChain ==
  /\ build \in Builds
  /\ hs = [h \in Handles |-> Fixture(h)]
  /\ heap = [h \in 1..(IF NumHandles <= MaxLists THEN NumHandles ELSE MaxLists)
               |-> PushBack(NewPair)]
  /\ completed = <<>>
  /\ failed = {}
  /\ pc = "idle"
  /\ cur = NoCall
  /\ batch = 0
  /\ trace = <<>>
  /\ result = Void
  /\ last = Call("none", 0, <<>>)
  /\ calls = 0
  /\ err = "none"

NextChain ==
  \/ \E h \in Handles, q \in Handles : AddPriorRequest(h, q)
  \/ \E h \in Handles, n \in {NullReq} \cup Ops : AssignNative(h, n)
  \/ \E h \in Handles : AddPostWaitWork(h)
  \/ \E h \in Handles : WaitBegin(h)
  \/ \E ub \in {"skip", "crash"} : WaitStep(ub)
  \/ \E n \in Ops : NativeComplete(n)

SpecChain == InitChain /\ [][NextChain]_vars

\* ------------------------------------------------------------------------
\* The same handles over a native layer whose operations can end with an
\* error: the caller chains, tests and waits.

NextFail ==
  \/ \E h \in Handles, q \in Handles : AddPriorRequest(h, q)
  \/ \E h \in Handles, ws \in BOOLEAN : Test(h, ws)
  \/ \E h \in Handles : WaitBegin(h)
  \/ \E ub \in {"skip", "crash"} : WaitStep(ub)
  \/ \E n \in Ops : NativeComplete(n)
  \/ \E n \in Ops : NativeFail(n)

SpecFail == InitChain /\ [][NextFail]_vars

\* ------------------------------------------------------------------------
\* The caller also uses the public cleanup(): handles are made, copied,
\* given work, cleaned up, destroyed and waited for.

NextCleanup ==
  \/ \E h \in Handles, n \in {NullReq} \cup Ops : Create(h, n)
  \/ \E d \in Handles, s \in Handles : Copy(d, s)
  \/ \E h \in Handles : Cleanup(h)
  \/ \E h \in Handles : Destroy(h)
  \/ \E h \in Handles : AddPostWaitWork(h)
  \/ \E h \in Handles : WaitBegin(h)
  \/ \E ub \in {"skip", "crash"} : WaitStep(ub)
  \/ \E n \in Ops : NativeComplete(n)

SpecCleanup == Init /\ [][NextCleanup]_vars

\* ------------------------------------------------------------------------
\* Termination of wait(): the caller chains and waits, over a native layer
\* in which every operation completes in the end (the premise of the
\* termination claim: weak fairness of each NativeComplete(n)), and a wait()
\* whose MPI_Wait can return goes on (weak fairness of WaitStep: the frame is
\* straight-line code after MPI_Wait).

NextLive ==
  \/ \E h \in Handles, q \in Handles : AddPriorRequest(h, q)
  \/ \E h \in Handles : WaitBegin(h)
  \/ \E ub \in {"skip", "crash"} : WaitStep(ub)
  \/ \E n \in Ops : NativeComplete(n)

SpecLive ==
  /\ InitChain
  /\ [][NextLive]_vars
  /\ WF_vars(\E ub \in {"skip", "crash"} : WaitStep(ub))
  /\ \A n \in Ops : WF_vars(NativeComplete(n))

\* ------------------------------------------------------------------------
\* Properties

\* a wait() called on its own (not from the batch wait) has returned
WaitReturned == pc = "idle" /\ last.op = "wait" /\ err = "none"

\* the run events of every slot of the vector behind p, front to back
AllRuns(hp, p) ==
  IF p = NullPtr THEN <<>> ELSE [i \in 1..Len(hp[p].first) |-> Ev("run", p, i)]

\* none of the objects of H and its chain share a vector, and no item of
\* their vectors has run yet
OwnLists(H, hp) ==
  LET ps == Pointers(H)
  IN  /\ \A i, j \in 1..Len(ps) : i # j /\ ps[i] # NullPtr => ps[i] # ps[j]
      /\ \A i \in 1..Len(ps) :
           ps[i] # NullPtr => \A x \in 1..Len(hp[ps[i]].first) : hp[ps[i]].first[x]

\* links k, k-1, ..., 1 of the chain of H: each one's MPI_Wait, then its work
RECURSIVE ChainOrder(_, _, _)
ChainOrder(H, hp, k) ==
  IF k = 0 THEN <<>>
  ELSE <<Ev("wait", H.prior[k].req, 0)>> \o AllRuns(hp, H.prior[k].pww)
         \o ChainOrder(H, hp, k - 1)

AttachmentOrder(h, H, hp) ==
  <<Ev("call", h, 0)>> \o ChainOrder(H, hp, Len(H.prior))
    \o <<Ev("wait", H.req, 0)>> \o AllRuns(hp, H.pww)

\* C1: add_prior_request puts the copy of req in front of the chain the
\* handle had, so that the links first attached lie deepest; and a wait() on
\* a handle whose chain links and own vector are all distinct and not yet
\* run, once it has returned, has done exactly this, in this order: the
\* MPI_Wait and then the work of the link attached first, then of the link
\* attached second, ..., and last the handle's own MPI_Wait and own work.
C1_AttachmentOrder ==
  /\ [](WaitReturned /\ OwnLists(cur.h0, cur.heap0)
          => trace = AttachmentOrder(cur.h, cur.h0, cur.heap0))
  /\ [][\A h, q \in Handles :
          AddPriorRequest(h, q) /\ err' = "none"
            => /\ Len(hs'[h].prior) = Len(hs[h].prior) + 1
               /\ hs'[h].prior[1] = Link(hs[q].req, hs[q].pww)
               /\ \A i \in 1..Len(hs[h].prior) : hs'[h].prior[i + 1] = hs[h].prior[i]]_vars

\* a wait() has returned on a handle with two priors and three distinct
\* vectors, each with work that had not run
C1_Witness ==
  /\ WaitReturned
  /\ Len(cur.h0.prior) = 2
  /\ OwnLists(cur.h0, cur.heap0)
  /\ \A i \in 1..3 : Pointers(cur.h0)[i] # NullPtr
  /\ cur.h0.req # NullReq
  /\ cur.h0.prior[2].req # NullReq
  /\ cur.h0.prior[2].req # cur.h0.req
  /\ Len(trace) = 7

\* the run events of the vector behind p that the trace holds, in order
RunsOf(p) == SelectSeq(trace, LAMBDA ev : ev.e = "run" /\ ev.a = p)

IsPrefix(r, t) == Len(r) <= Len(t) /\ r = SubSeq(t, 1, Len(r))

\* the handle the running or last wait() was called on had, at the call, a
\* vector none of whose items had run
QueuedAtCall ==
  /\ cur.h # 0
  /\ cur.h0.pww # NullPtr
  /\ \A i \in 1..Len(cur.heap0[cur.h0.pww].first) : cur.heap0[cur.h0.pww].first[i]

\* C2: during and after a wait() on a handle whose queued items w1..wk had
\* not run at the call, the items run so far are w1..wj for some j, in this
\* order and each once; none has run unless the handle's native operation
\* has completed; and when the wait() has returned all k have run, each
\* exactly once.
C2_FifoOnceAfterNative ==
  QueuedAtCall =>
    /\ IsPrefix(RunsOf(cur.h0.pww), AllRuns(cur.heap0, cur.h0.pww))
    /\ RunsOf(cur.h0.pww) # <<>> => cur.h0.req = NullReq \/ Done(cur.h0.req)
    /\ \A i \in 1..Len(heap[cur.h0.pww].runs) : heap[cur.h0.pww].runs[i] <= 1
    /\ pc = "idle" /\ err = "none" =>
         /\ RunsOf(cur.h0.pww) = AllRuns(cur.heap0, cur.h0.pww)
         /\ \A i \in 1..Len(heap[cur.h0.pww].runs) : heap[cur.h0.pww].runs[i] = 1

\* a wait() has returned on a handle of a native operation that had two
\* queued items
C2_Witness ==
  /\ WaitReturned
  /\ QueuedAtCall
  /\ cur.h0.req # NullReq
  /\ Len(cur.heap0[cur.h0.pww].first) = 2
  /\ Len(RunsOf(cur.h0.pww)) = 2

\* the Request objects (top-level handles and chain links) that hold p:
\* <<h, 0>> is handle h itself, <<h, i>> the i-th link of its chain
Holders(p) ==
  {x \in Handles \X (0..MaxChain) :
     /\ hs[x[1]].live
     /\ x[2] <= Len(hs[x[1]].prior)
     /\ Frame(hs[x[1]], x[2]).pww = p}

\* C3: while the program runs, the use count of every pair that has not been
\* deleted is the number of live Request objects, top-level or chain link,
\* that point to it, and is at least 1; a deleted pair has a count of 0 and
\* nothing points to it; and no use count is ever touched through a pointer
\* to a deleted pair (no second delete, no dangling share).
C3_RefcountIsHolders ==
  /\ err # "UseAfterFree"
  /\ err = "none" =>
       \A p \in 1..Len(heap) :
         /\ heap[p].second = Cardinality(Holders(p))
         /\ heap[p].freed <=> heap[p].second = 0

\* a pair shared by a handle and a chain link, and another pair deleted
C3_Witness ==
  /\ err = "none"
  /\ \E p, q \in 1..Len(heap) :
       /\ ~heap[p].freed
       /\ heap[p].second >= 2
       /\ \E x \in Holders(p) : x[2] > 0
       /\ \E x \in Holders(p) : x[2] = 0
       /\ heap[q].freed

\* every item pushed on the pair has been run by a wait(), the last such
\* wait() at a time when two or more Request objects shared the pair
DrainedWhileShared(pair) ==
  /\ pair.drc >= 2
  /\ \A i \in 1..Len(pair.runs) : pair.runs[i] >= 1

\* the DEBUG check of cleanup() has failed on this pair: the count is down
\* to 0 and the pair is not deleted
FreeCheckFailed(pair) == pair.second = 0 /\ ~pair.freed

\* C4: once a wait() on one of the Request objects sharing a pair has run
\* all the items of the pair, whatever is destroyed afterwards, and in
\* whatever order, every item has run exactly once (none again, none lost),
\* every slot holds a null pointer, and the release that brings the count to
\* 0 passes the DEBUG check of cleanup() and deletes the pair.
C4_DrainedCopyFreesCleanly ==
  \A p \in 1..Len(heap) :
    DrainedWhileShared(heap[p]) =>
      /\ \A i \in 1..Len(heap[p].runs) : heap[p].runs[i] = 1
      /\ ~Pending(heap[p])
      /\ ~FreeCheckFailed(heap[p])

\* in the strict build: a handle and its copy shared a pair with work, a
\* wait() drained it, and both have been destroyed, the pair with them
C4_Witness ==
  /\ build = "dbg"
  /\ err = "none"
  /\ last.op = "destroy"
  /\ \A h \in Handles : ~hs[h].live
  /\ \E p \in 1..Len(heap) :
       /\ DrainedWhileShared(heap[p])
       /\ Len(heap[p].first) >= 1
       /\ heap[p].freed

\* C5: test() and test(status) can be called on any live handle whatever the
\* state of its operation (they never wait for it), and the call changes
\* nothing but the handle's own _request: its chain, its post_wait_work
\* pointer, every other handle, every pair (items, items run, use counts)
\* stay as they were, no work is run and no wait() is entered.
C5_TestFrame ==
  /\ [](\A h \in Handles, ws \in BOOLEAN :
          Idle /\ hs[h].live => ENABLED Test(h, ws))
  /\ [][\A h \in Handles, ws \in BOOLEAN :
          Test(h, ws) =>
            /\ heap' = heap
            /\ hs'[h].prior = hs[h].prior
            /\ hs'[h].pww = hs[h].pww
            /\ hs'[h].live
            /\ hs'[h].req \in {hs[h].req, NullReq}
            /\ \A g \in Handles \ {h} : hs'[g] = hs[g]
            /\ pc' = "idle"
            /\ trace' = <<>>
            /\ completed' = completed]_vars

\* a test has returned true on a handle that has queued work not yet run
\* and a prior whose operation is still outstanding
C5_Witness ==
  /\ last.op \in {"test", "test_status"}
  /\ err = "none"
  /\ result.val = 1
  /\ hs[last.h].pww # NullPtr
  /\ Pending(heap[hs[last.h].pww])
  /\ \E i \in 1..Len(hs[last.h].prior) :
       /\ hs[last.h].prior[i].req # NullReq
       /\ ~Done(hs[last.h].prior[i].req)

\* the part of the trace that belongs to the wait() running or last returned
\* (a batch wait leaves the events of its earlier elements in front of it)
ThisCall ==
  LET c == CHOOSE j \in 1..Len(trace) :
             /\ trace[j].e = "call"
             /\ \A k \in (j + 1)..Len(trace) : trace[k].e # "call"
  IN  SubSeq(trace, c, Len(trace))

\* every item of the vector behind p had been run when the wait() was called
RunAtCall(p) ==
  /\ p # NullPtr
  /\ \A i \in 1..Len(cur.heap0[p].runs) : cur.heap0[p].runs[i] >= 1

\* C6: no work item is ever run twice; and a wait() called on a handle runs
\* none of the items, of the handle's vector or of its chain links' vectors,
\* that had already been run when it was called (no run event for them, the
\* number of their runs stays 1).
C6_NoRerun ==
  /\ \A p \in 1..Len(heap) : \A i \in 1..Len(heap[p].runs) : heap[p].runs[i] <= 1
  /\ cur.h # 0 =>
       \A x \in 1..Len(Pointers(cur.h0)) :
         LET p == Pointers(cur.h0)[x]
         IN  p # NullPtr =>
               \A i \in 1..Len(cur.heap0[p].runs) :
                 cur.heap0[p].runs[i] >= 1 =>
                   /\ heap[p].runs[i] = cur.heap0[p].runs[i]
                   /\ \A j \in 1..Len(ThisCall) : ThisCall[j] # Ev("run", p, i)

\* R2 with prior R1, W1 and W2 run by a first R2.wait(): a second R2.wait()
\* has ended (returned, or stopped the run), and W1 and W2 have run once
C6_Witness ==
  /\ last.op = "wait"
  /\ pc = "idle" \/ err # "none"
  /\ Len(cur.h0.prior) = 1
  /\ cur.h0.pww # cur.h0.prior[1].pww
  /\ RunAtCall(cur.h0.pww)
  /\ RunAtCall(cur.h0.prior[1].pww)
  /\ cur.heap0[cur.h0.pww].drc = 1
  /\ cur.heap0[cur.h0.pww].second = 1
  /\ \A i \in 1..Len(heap[cur.h0.pww].runs) : heap[cur.h0.pww].runs[i] = 1
  /\ \A i \in 1..Len(heap[cur.h0.prior[1].pww].runs) :
       heap[cur.h0.prior[1].pww].runs[i] = 1

\* C7: the Status a wait() returns is the one MPI_Wait filled in for the
\* handle's own _request as it was at the call (the empty Status for
\* MPI_REQUEST_NULL), whatever the requests of its chain links are.
C7_OwnStatus ==
  WaitReturned =>
    /\ result.kind = "wait"
    /\ result.stat = StatusOf(cur.h0.req)

\* a wait() has returned on a handle of one operation whose prior is a
\* request of another operation
C7_Witness ==
  /\ WaitReturned
  /\ cur.h0.req # NullReq
  /\ cur.h0.prior # <<>>
  /\ \A i \in 1..Len(cur.h0.prior) :
       cur.h0.prior[i].req \notin {NullReq, cur.h0.req}
  /\ result.stat = cur.h0.req

\* C8: in the strict build, add_prior_request(req) with a req that owns a
\* prior ends in the InvariantViolation of its assertion, and req is not
\* attached: no handle, no chain and no use count has changed.
C8_ChainedPriorRejected ==
  [][\A h, q \in Handles :
       AddPriorRequest(h, q) /\ build = "dbg" /\ hs[q].prior # <<>>
         => /\ err' = "InvariantViolation"
            /\ hs' = hs
            /\ heap' = heap]_vars

\* the strict build has stopped in add_prior_request, called with a request
\* that owns a prior
C8_Witness ==
  /\ build = "dbg"
  /\ err = "InvariantViolation"
  /\ last.op = "add_prior_request"
  /\ \E q \in Handles : hs[q].live /\ hs[q].prior # <<>>

BatchReturned == pc = "idle" /\ last.op = "batch" /\ err = "none"

CallsOf(tr) == SelectSeq(tr, LAMBDA ev : ev.e = "call")

WaitsOf(tr) == SelectSeq(tr, LAMBDA ev : ev.e = "wait")

\* C9: when the batch wait over the vector v has returned, wait() has been
\* called on v[1], v[2], ..., v[N], in this order and on nothing else; every
\* element and every link of its chain has been through its MPI_Wait (its
\* request is MPI_REQUEST_NULL and its operation, if it had one, is done);
\* and no element is left with queued work that has not run.
C9_BatchWaitsAllInOrder ==
  BatchReturned =>
    /\ CallsOf(trace) = [i \in 1..Len(last.v) |-> Ev("call", last.v[i], 0)]
    /\ \A i \in 1..Len(last.v) :
         LET H == hs[last.v[i]]
         IN  /\ H.req = NullReq
             /\ \A k \in 1..Len(H.prior) : H.prior[k].req = NullReq
             /\ H.pww # NullPtr => ~Pending(heap[H.pww])
    /\ \A j \in 1..Len(trace) :
         trace[j].e = "wait" /\ trace[j].a # NullReq => Done(trace[j].a)

\* a batch wait over two handles of two operations has returned, the
\* operation of the second element having completed before the first's
C9_Witness ==
  /\ BatchReturned
  /\ Len(last.v) = 2
  /\ Len(WaitsOf(trace)) = 2
  /\ WaitsOf(trace)[1].a # NullReq
  /\ WaitsOf(trace)[2].a # NullReq
  /\ completed = <<WaitsOf(trace)[2].a, WaitsOf(trace)[1].a>>

\* C10: the claim, for an assignment between two different handles: after
\* dst = src has returned, dst has the native handle of src, points to the
\* pair src points to, and has a chain that is link by link the chain of
\* src, whatever dst held before.
C10_AssignLikeCopy ==
  [][\A d, s \in Handles :
       Assign(d, s) /\ d # s /\ err' = "none"
         => /\ hs'[d].req = hs[s].req
            /\ hs'[d].pww = hs[s].pww
            /\ hs'[d].prior = hs[s].prior]_vars

\* a wait() called on its own has ended: it has returned or stopped the run
WaitEnded == last.op = "wait" /\ cur.h # 0 /\ (pc = "idle" \/ err # "none")

\* at the call the handle's vector held work a wait() had run before and,
\* behind it, work appended since
AppendedAfterDrain(H, hp) ==
  /\ H.pww # NullPtr
  /\ \E i \in 1..Len(hp[H.pww].runs) : hp[H.pww].runs[i] >= 1
  /\ \E i \in 1..Len(hp[H.pww].first) : hp[H.pww].first[i]

\* C11: the claim: the work a wait() has run is gone from the vector, so
\* that a later wait() on the handle (one without priors), after work was
\* appended, finds the appended work only: it runs it and returns.
C11_DrainRemoves ==
  WaitEnded /\ cur.h0.prior = <<>> /\ AppendedAfterDrain(cur.h0, cur.heap0)
    => /\ err = "none"
       /\ ~Pending(heap[cur.h0.pww])

\* C12: a native wait that reports an error, on the handle's own operation
\* or on that of any link of its chain, makes wait() fail with
\* TransportFailure at that point: every wait() in which a native wait was
\* issued on an operation that ended with an error has failed; the failing
\* native wait is the last thing the call did (no work ran after it, no
\* further link was waited, it was not issued again), the links behind it had
\* been waited one each, and the call never returned to its caller.
C12_NativeErrorSurfaces ==
  LET W == WaitsOf(ThisCall)
  IN  /\ (last.op = "wait" /\ \E i \in 1..Len(W) : Failed(W[i].a))
           => err = "TransportFailure"
      /\ (last.op = "wait" /\ err = "TransportFailure")
           => /\ pc = "wait"
              /\ result = Void
              /\ Len(W) = Len(cur.h0.prior) - cur.pos + 1
              /\ ThisCall[Len(ThisCall)] = Ev("wait", Frame(cur.h0, cur.pos).req, 0)
              /\ Failed(W[Len(W)].a)
              /\ \A i \in 1..(Len(W) - 1) : ~Failed(W[i].a)

C12_Witness ==
  /\ err = "TransportFailure"
  /\ last.op = "wait"
  /\ Len(WaitsOf(ThisCall)) >= 2
  /\ \E i \in 1..Len(ThisCall) : ThisCall[i].e = "run"

\* C13: a copy has a prior chain of its own.  The copy constructor gives the
\* copy a chain that is link by link the chain of the original (same native
\* handle, same pair, the pair counted once more and not deleted) and leaves
\* the original as it was; and add_prior_request, assignment from a Request
\* and assignment from a native handle on one handle leave every other
\* handle, its chain and the pairs its links point to as they were.
C13_IndependentChains ==
  [][/\ \A d, s \in Handles :
          Copy(d, s) /\ err' = "none"
            => /\ hs'[s] = hs[s]
               /\ Len(hs'[d].prior) = Len(hs[s].prior)
               /\ \A i \in 1..Len(hs[s].prior) :
                    /\ hs'[d].prior[i] = hs[s].prior[i]
                    /\ hs[s].prior[i].pww # NullPtr
                         => /\ heap'[hs[s].prior[i].pww].second
                                 > heap[hs[s].prior[i].pww].second
                            /\ ~heap'[hs[s].prior[i].pww].freed
     /\ \A c \in Handles :
          /\ calls' = calls + 1
          /\ last'.h = c
          /\ last'.op \in {"add_prior_request", "assign", "assign_native"}
          /\ err' = "none"
          => \A h \in Handles \ {c} :
               /\ hs'[h] = hs[h]
               /\ \A i \in 1..Len(hs[h].prior) :
                    hs[h].prior[i].pww # NullPtr
                      => ~heap'[hs[h].prior[i].pww].freed]_vars

\* two handles with the same native handle and pair, one's chain being the
\* other's with a link added in front by the add_prior_request just made on
\* it, the links of the shared tail pointing to one counted pair
C13_Witness ==
  /\ err = "none"
  /\ last.op = "add_prior_request"
  /\ \E h \in Handles \ {last.h} :
       /\ hs[h].live
       /\ hs[h].req = hs[last.h].req
       /\ hs[h].pww = hs[last.h].pww
       /\ hs[h].prior # <<>>
       /\ Len(hs[last.h].prior) = Len(hs[h].prior) + 1
       /\ Tail(hs[last.h].prior) = hs[h].prior
       /\ hs[h].prior[1].pww # NullPtr
       /\ heap[hs[h].prior[1].pww].second >= 2

\* C14: assigning a native handle n to handle h gives h the native handle
\* n and no pair; the pair h pointed to has lost exactly h's share (it is
\* deleted if that was the last one, otherwise counted down by one and kept),
\* no other pair is touched; and h's prior chain is still attached, link by
\* link what it was.
C14_AssignNativeKeepsChain ==
  [][\A h \in Handles, n \in {NullReq} \cup Ops :
       AssignNative(h, n) /\ err' = "none"
         => /\ hs'[h].req = n
            /\ hs'[h].pww = NullPtr
            /\ hs'[h].prior = hs[h].prior
            /\ hs'[h].live
            /\ \A g \in Handles \ {h} : hs'[g] = hs[g]
            /\ \A p \in 1..Len(heap) :
                 IF p = hs[h].pww
                 THEN /\ heap'[p].second = heap[p].second - 1
                      /\ heap'[p].freed <=> heap[p].second = 1
                      /\ heap'[p].first = heap[p].first
                 ELSE heap'[p] = heap[p]]_vars

\* a handle with a chain has just been assigned a native handle: it has the
\* chain still and no pair, and the pair it held has been deleted
C14_Witness ==
  /\ err = "none"
  /\ last.op = "assign_native"
  /\ hs[last.h].req # NullReq
  /\ hs[last.h].pww = NullPtr
  /\ hs[last.h].prior # <<>>
  /\ \E p \in 1..Len(heap) : heap[p].freed

\* the calls that release a share of the handle they are made on
Releasing == {"destroy", "assign", "assign_native"}

\* C15: in the strict build, releasing the last share of a pair (by
\* destruction, assignment from a Request or assignment from a native
\* handle) while its vector holds an item that has not been run is an
\* InvariantViolation, and no other release is: a pair is never deleted with
\* an item pending; a pair whose count has reached 0 without being deleted is
\* one with an item pending, and the releasing call that counted it down
\* ended in InvariantViolation; and a releasing call ends in
\* InvariantViolation only with such a pair.
C15_LastReleaseWithPendingWork ==
  build = "dbg" =>
    /\ \A p \in 1..Len(heap) :
         /\ heap[p].freed => ~Pending(heap[p])
         /\ heap[p].second = 0 /\ ~heap[p].freed
              => /\ err = "InvariantViolation"
                 /\ last.op \in Releasing
                 /\ Pending(heap[p])
    /\ err = "InvariantViolation" /\ last.op \in Releasing
         => \E p \in 1..Len(heap) :
              heap[p].second = 0 /\ ~heap[p].freed /\ Pending(heap[p])

\* a last release of a pair with pending work has ended the run, after the
\* last release of a drained pair had deleted that pair
C15_Witness ==
  /\ build = "dbg"
  /\ err = "InvariantViolation"
  /\ last.op \in Releasing
  /\ \E p, q \in 1..Len(heap) :
       /\ heap[p].second = 0 /\ ~heap[p].freed /\ Pending(heap[p])
       /\ heap[q].freed /\ heap[q].first # <<>>

\* the native waits the wait() running or last ended has issued
NativeWaits == Len(WaitsOf(ThisCall))

\* C16: the claim: with every native operation of a handle and of its chain
\* completing in the end, a wait() on the handle returns to its caller in the
\* end, having issued one native wait per object: chain length plus one.  A
\* call that returns in the end is at no point a call that has been stopped
\* short of its return (first conjunct, the part a finite run can refute).
C16_WaitReturns ==
  /\ [](pc = "wait" => err = "none")
  /\ [](pc = "wait"
          => <>(WaitReturned /\ NativeWaits = Len(cur.h0.prior) + 1))

\* the frame of the running wait() that is next to pass its MPI_Wait
CurFrame == Frame(hs[cur.h], cur.pos)

\* an item of the pair has been run by a wait()
HasRun(pair) == \E i \in 1..Len(pair.runs) : pair.runs[i] >= 1

\* C17: in the strict build, once a wait() has run items of a vector, every
\* frame of a wait() that gets to the loop over that vector (on the same
\* handle, on a copy, or as a link of a chain) stops at libmesh_assert(item):
\* the step ends the run with InvariantViolation, runs no item and does not
\* return to the caller.
C17_SecondWaitAsserts ==
  [][(/\ \E ub \in {"skip", "crash"} : WaitStep(ub)
      /\ build = "dbg"
      /\ ~Failed(CurFrame.req)
      /\ CurFrame.pww # NullPtr
      /\ HasRun(heap[CurFrame.pww]))
       => /\ err' = "InvariantViolation"
          /\ heap' = heap
          /\ pc' = "wait"
          /\ result' = result]_vars

\* a wait() on a handle has stopped at the assertion in the frame of a chain
\* link whose vector an earlier wait() had run
C17_Witness ==
  /\ build = "dbg"
  /\ err = "InvariantViolation"
  /\ last.op = "wait"
  /\ pc = "wait"
  /\ cur.pos >= 1
  /\ CurFrame.pww # NullPtr
  /\ HasRun(cur.heap0[CurFrame.pww])

\* C18: add_post_wait_work on a handle that points to no pair allocates a
\* new pair with a use count of 1 and the one item, to which that handle and
\* no other Request object points: the handles that were copied from it
\* before (and every other handle) are as they were; and a wait() runs items
\* only of the pairs its handle or chain pointed to when it was called, so
\* that a wait() on such a copy runs none of the items queued on the original
\* afterwards.
C18_LateListNotShared ==
  /\ [][\A h \in Handles :
          AddPostWaitWork(h) /\ hs[h].pww = NullPtr
            => /\ Len(heap') = Len(heap) + 1
               /\ hs'[h].pww = Len(heap')
               /\ heap'[Len(heap')].second = 1
               /\ heap'[Len(heap')].first = <<TRUE>>
               /\ ~heap'[Len(heap')].freed
               /\ \A g \in Handles \ {h} : hs'[g] = hs[g]
               /\ \A g \in Handles, k \in 0..MaxChain :
                    k <= Len(hs'[g].prior) /\ Frame(hs'[g], k).pww = Len(heap')
                      => g = h /\ k = 0]_vars
  /\ [](last.op = "wait"
          => \A i \in 1..Len(ThisCall) :
               ThisCall[i].e = "run"
                 => \E j \in 1..Len(Pointers(cur.h0)) :
                      Pointers(cur.h0)[j] = ThisCall[i].a)

\* a wait() has returned on a handle without a pair and has run nothing,
\* while another handle, of the same native handle at the call, points to a
\* pair of use count 1 whose item has not run
C18_Witness ==
  /\ WaitReturned
  /\ cur.h0.pww = NullPtr
  /\ cur.h0.prior = <<>>
  /\ cur.h0.req # NullReq
  /\ \A i \in 1..Len(ThisCall) : ThisCall[i].e # "run"
  /\ \E h \in Handles \ {cur.h} :
       /\ hs[h].live
       /\ hs[h].req = cur.h0.req
       /\ hs[h].pww # NullPtr
       /\ heap[hs[h].pww].second = 1
       /\ heap[hs[h].pww].first = <<TRUE>>
       /\ heap[hs[h].pww].runs = <<0>>

\* C19: the claim: assigning a handle to itself changes nothing: the handle
\* points to the same pair afterwards, the pair holds the same items and has
\* the same use count, also when that count is 1, and the call returns.
C19_SelfAssignNoOp ==
  [][\A h \in Handles :
       Assign(h, h)
         => /\ err' = "none"
            /\ hs'[h].pww = hs[h].pww
            /\ hs[h].pww # NullPtr
                 => /\ heap'[hs[h].pww].first = heap[hs[h].pww].first
                    /\ heap'[hs[h].pww].second = heap[hs[h].pww].second
                    /\ ~heap'[hs[h].pww].freed]_vars

\* C20: the claim: a handle releases its share at most once, also when the
\* caller uses cleanup(): after cleanup() on a handle that shares its pair,
\* the destruction of that handle (or another cleanup()) does not count the
\* pair down again, so that while the program runs no pair has been deleted
\* that a live handle still points to.
C20_CleanupReleasesOnce ==
  err = "none" =>
    \A h \in Handles :
      hs[h].live /\ hs[h].pww # NullPtr => ~heap[hs[h].pww].freed

====
